---- MODULE Spec2Model ----
(***************************************************************************)
(* Model of openbci.go: the Device wrapper with its reset handshake, and   *)
(* the MockDevice packet generator.                                        *)
(*                                                                         *)
(* Spec / FairSpec: one call on a Device (Write or Read) over a transport  *)
(* whose writes may fail and whose reads follow a script.                  *)
(* MockSpec: any sequence of Read and Write calls on a MockDevice.         *)
(***************************************************************************)
EXTENDS Integers, Sequences, FiniteSets, TLC

\* ---------------------------------------------------------------- Command
STOP == 115
START == 98
RESET == 118
FOOTER == 192
HEADER == 160
INIT == 36

\* ------------------------------------------------------------------ bounds
\* Frames of Device.reset the goroutine stack can hold before the runtime
\* ends the program with "stack overflow".
MaxDepth == 4
\* Longest buffer handed to MockDevice.Read.
MaxReadLen == 2
\* Packets after which the model stops reading from the MockDevice.
MaxPackets == 257
\* Number of most recent emitted bytes whose phase is remembered.
Window == 36

\* ------------------------------------------------------------------ errors
NoErr == "nil"
EOF == "EOF"
EIO == "EIO"

VARIABLES
    pc,         \* "idle", "running", "returned", "crashed": the caller's call
    op,         \* "none", "Write", "Read": the method the caller called
    buf,        \* the buffer the caller passed to Device.Write
    stack,      \* the frames of Device.reset, innermost last
    callret,    \* <<r>>: a d.Write made by the top frame (or the caller) is returning r
    tw,         \* the writes the transport d.w received, with what it answered
    rd,         \* what the transport d.r will answer to the next reads
    nreads,     \* reads performed on the transport
    ret,        \* what the call returned to the caller
    on, seqcounter, datacounter, readstate,   \* MockDevice
    last,       \* the last call on the MockDevice: [op, p, n, err], p the buffer
                \* after the call, (n, err) what the call returned
    pos,        \* bytes emitted by the MockDevice so far
    hist        \* readstate in which each of the last Window bytes was emitted

devvars == <<pc, op, buf, stack, callret, tw, rd, nreads, ret>>
mockvars == <<on, seqcounter, datacounter, readstate, last, pos, hist>>
vars == <<pc, op, buf, stack, callret, tw, rd, nreads, ret,
          on, seqcounter, datacounter, readstate, last, pos, hist>>

\* --------------------------------------------------------------- transport
\* io.Writer: n bytes of data were written; n < len(data) comes with an error.
WOutcomes(data) ==
    {[n |-> Len(data), err |-> NoErr]} \cup {[n |-> k, err |-> EIO] : k \in 0..Len(data)}

\* io.Reader answers to a one-byte read: a byte, the no-data timeout, a hard
\* error, or no byte and no error.
Data(b) == [n |-> 1, b |-> b, err |-> NoErr]
Timeout == [n |-> 0, b |-> 0, err |-> EOF]
HardErr == [n |-> 0, b |-> 0, err |-> EIO]
Nothing == [n |-> 0, b |-> 0, err |-> NoErr]

Scripts ==
    { <<>>,
      <<Data(1), Data(INIT), Data(INIT), Data(INIT), Data(2)>>,
      <<Data(INIT), Data(INIT), Data(INIT)>>,
      <<HardErr>>,
      <<Data(INIT), HardErr>>,
      <<Data(INIT), Timeout, Data(INIT), Timeout, Timeout, Data(INIT)>>,
      <<Data(INIT), Data(1), Data(INIT), Data(INIT)>>,
      <<Data(INIT), Nothing, Nothing>> }

Bufs ==
    { <<>>, <<STOP>>, <<START>>, <<1, 2>>,
      <<RESET>>, <<1, RESET>>, <<RESET, 2>>, <<START, RESET, STOP>> }

\* ------------------------------------------------------------------ Device
isResetFirstByte(b) == Len(b) > 0 /\ b[1] = RESET

isReset(b) == \E i \in 1..Len(b) : b[i] = RESET

\* Device.Read's return for the transport's answer o.
ReadResult(o) ==
    IF o.err # NoErr THEN [n |-> 0, err |-> o.err] ELSE [n |-> o.n, err |-> NoErr]

\* Device.Write's return for the (n, err) of d.reset or of d.w.Write.
WriteResult(n, err) ==
    IF err # NoErr THEN [n |-> 0, err |-> err] ELSE [n |-> n, err |-> NoErr]

\* The locals of a fresh call of Device.reset, about to write stop.
NewFrame ==
    [pc |-> "l102", n |-> 0, idx |-> 0, scrolling |-> <<0, 0, 0>>, buf |-> <<0>>]

init_array == <<INIT, INIT, INIT>>

Top == stack[Len(stack)]
Pop == SubSeq(stack, 1, Len(stack) - 1)
SetTop(f) == [stack EXCEPT ![Len(stack)] = f]

\* What frame f of Device.reset does with the result r of the d.Write it made.
AfterWriteIgnoresStopError(f, r) ==
    CASE f.pc = "l102" ->
            [returns |-> FALSE, val |-> r,
             frame |-> [f EXCEPT !.n = f.n + r.n, !.pc = "l109"]]
      [] f.pc = "l109" ->
            IF r.err # NoErr
            THEN [returns |-> TRUE, val |-> [n |-> f.n, err |-> r.err], frame |-> f]
            ELSE [returns |-> FALSE, val |-> r,
                  frame |-> [f EXCEPT !.n = f.n + r.n, !.pc = "l119"]]
      [] OTHER ->
            IF r.err # NoErr
            THEN [returns |-> TRUE, val |-> [n |-> f.n, err |-> r.err], frame |-> f]
            ELSE [returns |-> TRUE, val |-> [n |-> f.n + r.n, err |-> NoErr], frame |-> f]

AfterWrite(f, r) ==
    CASE f.pc = "l102" ->
            IF r.err # NoErr
            THEN [returns |-> TRUE, val |-> [n |-> 0, err |-> r.err], frame |-> f]
            ELSE [returns |-> FALSE, val |-> r,
                  frame |-> [f EXCEPT !.n = f.n + r.n, !.pc = "l109"]]
      [] f.pc = "l109" ->
            IF r.err # NoErr
            THEN [returns |-> TRUE, val |-> [n |-> f.n, err |-> r.err], frame |-> f]
            ELSE [returns |-> FALSE, val |-> r,
                  frame |-> [f EXCEPT !.n = f.n + r.n, !.pc = "l119"]]
      [] OTHER ->
            IF r.err # NoErr
            THEN [returns |-> TRUE, val |-> [n |-> f.n, err |-> r.err], frame |-> f]
            ELSE [returns |-> TRUE, val |-> [n |-> f.n + r.n, err |-> NoErr], frame |-> f]

\* Device.reset returns val: its caller Device.Write hands WriteResult on.
Return(val) ==
    /\ stack' = Pop
    /\ callret' = <<WriteResult(val.n, val.err)>>

\* The top frame receives the result r of the d.Write it made.
Deliver(r) ==
    LET a == AfterWrite(Top, r) IN
    IF a.returns
    THEN Return(a.val)
    ELSE /\ stack' = SetTop(a.frame)
         /\ callret' = <<>>

\* d.Write(b) called by the top frame of Device.reset.
Write(b) ==
    IF isReset(b)
    THEN IF Len(stack) < MaxDepth
         THEN /\ stack' = Append(stack, NewFrame)
              /\ UNCHANGED <<pc, tw, callret>>
         ELSE /\ pc' = "crashed"
              /\ UNCHANGED <<stack, tw, callret>>
    ELSE \E o \in WOutcomes(b) :
            /\ tw' = Append(tw, [data |-> b, n |-> o.n, err |-> o.err])
            /\ Deliver(WriteResult(o.n, o.err))
            /\ UNCHANGED pc

\* One pass of the polling loop of Device.reset.
Poll ==
    LET f == Top
        o == Head(rd)
        b1 == IF o.n >= 1 THEN <<o.b>> ELSE f.buf
        r == ReadResult(o)
        scr == [f.scrolling EXCEPT ![(f.idx % 3) + 1] = b1[1]]
    IN  /\ rd # <<>>
        /\ rd' = Tail(rd)
        /\ nreads' = nreads + 1
        /\ IF r.err = EOF
           THEN /\ stack' = SetTop([f EXCEPT !.buf = b1])
                /\ callret' = <<>>
           ELSE IF r.err # NoErr
           THEN Return([n |-> f.n, err |-> r.err])
           ELSE /\ stack' = SetTop([f EXCEPT !.buf = b1, !.scrolling = scr,
                                             !.idx = f.idx + 1,
                                             !.pc = IF scr = init_array
                                                    THEN "l128" ELSE "l119"])
                /\ callret' = <<>>
        /\ UNCHANGED <<pc, tw>>

\* The next statement of the innermost running Device.reset. The d.Write of
\* the reset byte (l109) goes through Device.Write, which finds the reset byte
\* and runs Device.reset again: see PollingUnreachable. A transport with no
\* answer left (rd = <<>>) blocks the polling read.
reset ==
    /\ pc = "running"
    /\ stack # <<>>
    /\ callret = <<>>
    /\ CASE Top.pc = "l102" -> Write(<<STOP>>) /\ UNCHANGED <<rd, nreads>>
         [] Top.pc = "l109" -> Write(<<RESET>>) /\ UNCHANGED <<rd, nreads>>
         [] Top.pc = "l119" -> Poll
         [] OTHER -> Write(<<START>>) /\ UNCHANGED <<rd, nreads>>
    /\ UNCHANGED <<op, buf, ret>>
    /\ UNCHANGED mockvars

\* A d.Write that ran the handshake returns: to the frame that made it, or
\* to the caller of Device.Write.
WriteReturns ==
    /\ pc = "running"
    /\ callret # <<>>
    /\ IF stack = <<>>
       THEN /\ ret' = callret[1]
            /\ pc' = "returned"
            /\ callret' = <<>>
            /\ UNCHANGED stack
       ELSE /\ Deliver(callret[1])
            /\ UNCHANGED <<ret, pc>>
    /\ UNCHANGED <<op, buf, tw, rd, nreads>>
    /\ UNCHANGED mockvars

\* The caller calls Device.Write(b).
DeviceWrite(b) ==
    /\ pc = "idle"
    /\ op' = "Write"
    /\ buf' = b
    /\ IF isReset(b)
       THEN /\ stack' = <<NewFrame>>
            /\ pc' = "running"
            /\ UNCHANGED <<tw, ret>>
       ELSE \E o \in WOutcomes(b) :
               /\ tw' = Append(tw, [data |-> b, n |-> o.n, err |-> o.err])
               /\ ret' = WriteResult(o.n, o.err)
               /\ pc' = "returned"
               /\ UNCHANGED stack
    /\ UNCHANGED <<callret, rd, nreads>>
    /\ UNCHANGED mockvars

\* The caller calls Device.Read with a one-byte buffer.
DeviceRead ==
    /\ pc = "idle"
    /\ op' = "Read"
    /\ rd # <<>>
    /\ rd' = Tail(rd)
    /\ nreads' = nreads + 1
    /\ ret' = ReadResult(Head(rd))
    /\ pc' = "returned"
    /\ UNCHANGED <<buf, stack, callret, tw>>
    /\ UNCHANGED mockvars

\* -------------------------------------------------------------- MockDevice
\* What rand.Read may put in a payload slot (one value equals the footer).
PayloadBytes == {7, FOOTER}
\* What the caller's buffer holds before a Read.
STALE == 238

WBufs == { <<>>, <<START>>, <<STOP>>, <<0>>, <<0, START>>, <<START, STOP>> }

\* The lengths of the buffers handed to MockDevice.Read.
ReadLens == {0, 1, MaxReadLen}

\* One pass of the loop body of MockDevice.Read in state s, with r what
\* rand.Read yields: the new state, and the byte stored (emit = 0: none).
microStepToFooter(s, r) ==
    CASE s.readstate = 0 ->
            [s |-> [s EXCEPT !.readstate = 1], emit |-> 1, b |-> FOOTER]
      [] s.readstate = 1 ->
            [s |-> [s EXCEPT !.readstate = 2], emit |-> 1, b |-> HEADER]
      [] s.readstate = 2 ->
            [s |-> [s EXCEPT !.readstate = 3], emit |-> 1, b |-> s.seqcounter]
      [] s.readstate = 3 ->
            [s |-> IF (s.datacounter + 1) % 256 = 30
                   THEN [s EXCEPT !.readstate = 4, !.datacounter = 0]
                   ELSE [s EXCEPT !.datacounter = (s.datacounter + 1) % 256],
             emit |-> 1, b |-> r]
      [] s.readstate = 4 ->
            [s |-> [s EXCEPT !.readstate = 0,
                             !.seqcounter = (s.seqcounter + 1) % 256],
             emit |-> 1, b |-> FOOTER]
      [] OTHER -> [s |-> s, emit |-> 0, b |-> 0]

microStepNoIncrement(s, r) ==
    CASE s.readstate = 0 ->
            [s |-> [s EXCEPT !.readstate = 1], emit |-> 1, b |-> FOOTER]
      [] s.readstate = 1 ->
            [s |-> [s EXCEPT !.readstate = 2], emit |-> 1, b |-> HEADER]
      [] s.readstate = 2 ->
            [s |-> [s EXCEPT !.readstate = 3], emit |-> 1, b |-> s.seqcounter]
      [] s.readstate = 3 ->
            [s |-> IF (s.datacounter + 1) % 256 = 30
                   THEN [s EXCEPT !.readstate = 4, !.datacounter = 0]
                   ELSE [s EXCEPT !.datacounter = (s.datacounter + 1) % 256],
             emit |-> 1, b |-> r]
      [] s.readstate = 4 ->
            [s |-> [s EXCEPT !.readstate = 1], emit |-> 1, b |-> FOOTER]
      [] OTHER -> [s |-> s, emit |-> 0, b |-> 0]

microStepNoWrap(s, r) ==
    CASE s.readstate = 0 ->
            [s |-> [s EXCEPT !.readstate = 1], emit |-> 1, b |-> FOOTER]
      [] s.readstate = 1 ->
            [s |-> [s EXCEPT !.readstate = 2], emit |-> 1, b |-> HEADER]
      [] s.readstate = 2 ->
            [s |-> [s EXCEPT !.readstate = 3], emit |-> 1, b |-> s.seqcounter]
      [] s.readstate = 3 ->
            [s |-> IF (s.datacounter + 1) % 256 = 30
                   THEN [s EXCEPT !.readstate = 4, !.datacounter = 0]
                   ELSE [s EXCEPT !.datacounter = (s.datacounter + 1) % 256],
             emit |-> 1, b |-> r]
      [] s.readstate = 4 ->
            [s |-> [s EXCEPT !.readstate = 1, !.seqcounter = s.seqcounter + 1],
             emit |-> 1, b |-> FOOTER]
      [] OTHER -> [s |-> s, emit |-> 0, b |-> 0]

microStepNoCounterReset(s, r) ==
    CASE s.readstate = 0 ->
            [s |-> [s EXCEPT !.readstate = 1], emit |-> 1, b |-> FOOTER]
      [] s.readstate = 1 ->
            [s |-> [s EXCEPT !.readstate = 2], emit |-> 1, b |-> HEADER]
      [] s.readstate = 2 ->
            [s |-> [s EXCEPT !.readstate = 3], emit |-> 1, b |-> s.seqcounter]
      [] s.readstate = 3 ->
            [s |-> IF (s.datacounter + 1) % 256 = 30
                   THEN [s EXCEPT !.readstate = 4, !.datacounter = 30]
                   ELSE [s EXCEPT !.datacounter = (s.datacounter + 1) % 256],
             emit |-> 1, b |-> r]
      [] s.readstate = 4 ->
            [s |-> [s EXCEPT !.readstate = 1, !.datacounter = 0,
                             !.seqcounter = (s.seqcounter + 1) % 256],
             emit |-> 1, b |-> FOOTER]
      [] OTHER -> [s |-> s, emit |-> 0, b |-> 0]

microStep(s, r) ==
    CASE s.readstate = 0 ->
            [s |-> [s EXCEPT !.readstate = 1], emit |-> 1, b |-> FOOTER]
      [] s.readstate = 1 ->
            [s |-> [s EXCEPT !.readstate = 2], emit |-> 1, b |-> HEADER]
      [] s.readstate = 2 ->
            [s |-> [s EXCEPT !.readstate = 3], emit |-> 1, b |-> s.seqcounter]
      [] s.readstate = 3 ->
            [s |-> IF (s.datacounter + 1) % 256 = 30
                   THEN [s EXCEPT !.readstate = 4, !.datacounter = 0]
                   ELSE [s EXCEPT !.datacounter = (s.datacounter + 1) % 256],
             emit |-> 1, b |-> r]
      [] s.readstate = 4 ->
            [s |-> [s EXCEPT !.readstate = 1,
                             !.seqcounter = (s.seqcounter + 1) % 256],
             emit |-> 1, b |-> FOOTER]
      [] OTHER -> [s |-> s, emit |-> 0, b |-> 0]

RECURSIVE readLoopRestarts(_, _, _, _, _, _)
readLoopRestarts(s, q, idx, b, marks, rands) ==
    IF idx > Len(q)
    THEN [s |-> s, p |-> q, b |-> b, marks |-> marks]
    ELSE LET s0 == IF idx = 1 THEN [s EXCEPT !.readstate = 0] ELSE s
             m == microStep(s0, IF rands = <<>> THEN 0 ELSE Head(rands))
         IN  readLoopRestarts(m.s,
                  IF m.emit = 1 THEN [q EXCEPT ![idx] = m.b] ELSE q,
                  idx + 1,
                  b + m.emit,
                  IF m.emit = 1 THEN Append(marks, s0.readstate) ELSE marks,
                  IF s0.readstate = 3 /\ rands # <<>> THEN Tail(rands) ELSE rands)

\* The loop of MockDevice.Read over the slots idx..Len(q) of q, from state s,
\* with b bytes stored so far, marks the readstate in which each was stored,
\* and rands what the coming calls of rand.Read yield, in order (0 once rands
\* is used up).
RECURSIVE readLoop(_, _, _, _, _, _)
readLoop(s, q, idx, b, marks, rands) ==
    IF idx > Len(q)
    THEN [s |-> s, p |-> q, b |-> b, marks |-> marks]
    ELSE LET m == microStep(s, IF rands = <<>> THEN 0 ELSE Head(rands)) IN
         readLoop(m.s,
                  IF m.emit = 1 THEN [q EXCEPT ![idx] = m.b] ELSE q,
                  idx + 1,
                  b + m.emit,
                  IF m.emit = 1 THEN Append(marks, s.readstate) ELSE marks,
                  IF s.readstate = 3 /\ rands # <<>> THEN Tail(rands) ELSE rands)

\* The calls of rand.Read a Read of len slots makes from state s.
randCalls(s, len) ==
    LET dry == readLoop(s, [i \in 1..len |-> STALE], 1, 0, <<>>, <<>>) IN
    Cardinality({i \in 1..Len(dry.marks) : dry.marks[i] = 3})

mdState == [readstate |-> readstate, seqcounter |-> seqcounter, datacounter |-> datacounter]

LastOf(h) == IF Len(h) <= Window THEN h ELSE SubSeq(h, Len(h) - Window + 1, Len(h))

\* MockDevice.Read(p0) in state s of a device that is armed or not: the new
\* state, the buffer, the count returned and the readstate of each byte stored.
mdReadIgnoresOn(s, armed, p0, rands) ==
    readLoop(s, p0, 1, 0, <<>>, rands)

mdRead(s, armed, p0, rands) ==
    IF armed
    THEN readLoop(s, p0, 1, 0, <<>>, rands)
    ELSE [s |-> s, p |-> p0, b |-> 0, marks |-> <<>>]

\* The caller calls MockDevice.Read with a buffer of len slots.
MockRead(len) ==
    /\ pos <= 33 * MaxPackets
    /\ LET p0 == [i \in 1..len |-> STALE] IN
       \E rands \in [1..(IF on THEN randCalls(mdState, len) ELSE 0) -> PayloadBytes] :
           LET r == mdRead(mdState, on, p0, rands)
           IN  /\ readstate' = r.s.readstate
               /\ seqcounter' = r.s.seqcounter
               /\ datacounter' = r.s.datacounter
               /\ last' = [op |-> "Read", p |-> r.p, n |-> r.b, err |-> NoErr]
               /\ pos' = pos + r.b
               /\ hist' = LastOf(hist \o r.marks)
    /\ UNCHANGED on
    /\ UNCHANGED devvars

\* MockDevice.Write(w) on a device in state s (armed or not): the new state,
\* whether it is armed, and what the call returns.
mdWriteResets(s, armed, w) ==
    IF Len(w) = 0
    THEN [s |-> s, on |-> armed, n |-> 0, err |-> NoErr]
    ELSE [s |-> IF w[1] = STOP
                THEN [readstate |-> 0, seqcounter |-> 0, datacounter |-> 0]
                ELSE s,
          on |-> IF w[1] = START THEN TRUE
                 ELSE IF w[1] = STOP THEN FALSE
                 ELSE armed,
          n |-> Len(w), err |-> NoErr]

mdWriteSwapped(s, armed, w) ==
    IF Len(w) = 0
    THEN [s |-> s, on |-> armed, n |-> 0, err |-> NoErr]
    ELSE [s |-> s,
          on |-> IF w[1] = STOP THEN TRUE
                 ELSE IF w[1] = START THEN FALSE
                 ELSE armed,
          n |-> Len(w), err |-> NoErr]

mdWriteAnyByte(s, armed, w) ==
    IF Len(w) = 0
    THEN [s |-> s, on |-> armed, n |-> 0, err |-> NoErr]
    ELSE [s |-> s,
          on |-> IF \E i \in DOMAIN w : w[i] = START THEN TRUE
                 ELSE IF \E i \in DOMAIN w : w[i] = STOP THEN FALSE
                 ELSE armed,
          n |-> Len(w), err |-> NoErr]

mdWrite(s, armed, w) ==
    IF Len(w) = 0
    THEN [s |-> s, on |-> armed, n |-> 0, err |-> NoErr]
    ELSE [s |-> s,
          on |-> IF w[1] = START THEN TRUE
                 ELSE IF w[1] = STOP THEN FALSE
                 ELSE armed,
          n |-> Len(w), err |-> NoErr]

\* The caller calls MockDevice.Write(w).
MockWrite(w) ==
    /\ LET r == mdWrite(mdState, on, w)
       IN  /\ readstate' = r.s.readstate
           /\ seqcounter' = r.s.seqcounter
           /\ datacounter' = r.s.datacounter
           /\ on' = r.on
           /\ last' = [op |-> "Write", p |-> w, n |-> r.n, err |-> r.err]
    /\ UNCHANGED <<pos, hist>>
    /\ UNCHANGED devvars


DevInit ==
    /\ pc = "idle"
    /\ op = "none"
    /\ buf = <<>>
    /\ stack = <<>>
    /\ callret = <<>>
    /\ tw = <<>>
    /\ rd \in Scripts
    /\ nreads = 0
    /\ ret = [n |-> 0, err |-> NoErr]

\* NewMockDevice.
MockInit ==
    /\ on = FALSE
    /\ seqcounter = 0
    /\ datacounter = 0
    /\ readstate = 0
    /\ last = [op |-> "none", p |-> <<>>, n |-> 0, err |-> NoErr]
    /\ pos = 0
    /\ hist = <<>>

Init == DevInit /\ MockInit

Next ==
    \/ \E b \in Bufs : DeviceWrite(b)
    \/ DeviceRead
    \/ reset
    \/ WriteReturns

Spec == Init /\ [][Next]_vars

\* The calling goroutine keeps running: a call that can take a step takes it.
FairSpec == Spec /\ WF_vars(Next)

\* A Device that is never called: the specification of the MockDevice alone.
DevIdle ==
    /\ pc = "idle"
    /\ op = "none"
    /\ buf = <<>>
    /\ stack = <<>>
    /\ callret = <<>>
    /\ tw = <<>>
    /\ rd = <<>>
    /\ nreads = 0
    /\ ret = [n |-> 0, err |-> NoErr]

MockNext ==
    \/ \E len \in ReadLens : MockRead(len)
    \/ \E w \in WBufs : MockWrite(w)

MockSpecInit == DevIdle /\ MockInit

MockSpec == MockSpecInit /\ [][MockNext]_vars

\* The state of a MockDevice that has emitted q bytes (ReachableStateAt).
StateAt(q) ==
    IF q = 0
    THEN [readstate |-> 0, seqcounter |-> 0, datacounter |-> 0]
    ELSE LET r == (q - 1) % 33
             k == ((q - 1) \div 33) % 256
         IN  CASE r = 0 -> [readstate |-> 1, seqcounter |-> k, datacounter |-> 0]
               [] r = 1 -> [readstate |-> 2, seqcounter |-> k, datacounter |-> 0]
               [] r = 32 -> [readstate |-> 4, seqcounter |-> k, datacounter |-> 0]
               [] OTHER -> [readstate |-> 3, seqcounter |-> k, datacounter |-> r - 2]

\* The stream positions two consecutive Reads are compared from: the first
\* packet and a half, and the packets around the wrap of seqcounter.
ChunkStarts == 0..50 \cup (33 * 255)..(33 * 256 + 4)

\* An armed MockDevice that has emitted q bytes, for some q of ChunkStarts.
ChunkInit ==
    /\ DevIdle
    /\ on = TRUE
    /\ pos \in ChunkStarts
    /\ readstate = StateAt(pos).readstate
    /\ seqcounter = StateAt(pos).seqcounter
    /\ datacounter = StateAt(pos).datacounter
    /\ last = [op |-> "none", p |-> <<>>, n |-> 0, err |-> NoErr]
    /\ hist = <<>>

\* The caller calls MockDevice.Read with a slots and then with b slots; whole
\* is what one Read with a + b slots does from the same state.
Chunked(a, b) ==
    /\ last.op = "none"
    /\ \E rands \in [1..(IF on THEN randCalls(mdState, a + b) ELSE 0) -> PayloadBytes] :
         LET first == mdRead(mdState, on, [i \in 1..a |-> STALE], rands)
             used == IF on THEN randCalls(mdState, a) ELSE 0
             second == mdRead(first.s, on, [i \in 1..b |-> STALE],
                              SubSeq(rands, used + 1, Len(rands)))
             whole == mdRead(mdState, on, [i \in 1..(a + b) |-> STALE], rands)
         IN  /\ readstate' = second.s.readstate
             /\ seqcounter' = second.s.seqcounter
             /\ datacounter' = second.s.datacounter
             /\ last' = [op |-> "Chunks", p |-> first.p \o second.p,
                         n |-> first.b + second.b, err |-> NoErr,
                         a |-> a, b |-> b, na |-> first.b,
                         marks |-> first.marks \o second.marks, whole |-> whole]
             /\ pos' = pos + first.b + second.b
             /\ hist' = LastOf(hist \o first.marks \o second.marks)
    /\ UNCHANGED on
    /\ UNCHANGED devvars

ChunkNext == \E a \in 0..MaxReadLen : \E b \in 0..MaxReadLen : Chunked(a, b)

ChunkSpec == ChunkInit /\ [][ChunkNext]_vars

\* ------------------------------------------------------------------ claims
\* The caller's buffer holds the reset byte.
HasResetByte == \E i \in DOMAIN buf : buf[i] = RESET

\* The transport accepted in full every write it has received.
WritesAccepted ==
    \A i \in DOMAIN tw : tw[i].err = NoErr /\ tw[i].n = Len(tw[i].data)

\* The writes of the one byte b the transport has received.
Written(b) == Cardinality({i \in DOMAIN tw : tw[i].data = <<b>>})

\* The bytes the transport took in the writes that completed without error.
BytesWritten == Cardinality({i \in DOMAIN tw : tw[i].err = NoErr})

\* s answers its first k reads with data bytes, the last three of them the
\* first three consecutive init bytes.
InitRunEnds(s, k) ==
    /\ k >= 3
    /\ k <= Len(s)
    /\ \A i \in 1..k : s[i].err = NoErr /\ s[i].n = 1
    /\ \A j \in 3..k : (\A i \in (j - 2)..j : s[i].b = INIT) <=> j = k

\* A handshake has started on a transport that will answer with script s.
Handshaking(s) ==
    /\ pc = "running"
    /\ HasResetByte
    /\ nreads = 0
    /\ rd = s

\* No frame of Device.reset gets past its d.Write of the reset byte: that call
\* runs Device.reset again, so the polling loop and the start write of
\* Device.reset are never executed, and no handshake returns without an error.
PollingUnreachable ==
    /\ \A i \in DOMAIN stack : stack[i].pc \in {"l102", "l109"}
    /\ op = "Write" /\ HasResetByte => nreads = 0 /\ Written(START) = 0
    /\ op = "Write" /\ HasResetByte /\ pc = "returned" => ret.err # NoErr

\* C1: a Write holding the reset byte, on a transport that accepts every write
\* and answers the polling reads with bytes ending in the first three
\* consecutive init bytes, returns (3, nil) right after reading the third init
\* byte, the transport having received exactly one start write.
C1_HandshakeReturnsThree ==
    \A s \in Scripts : \A k \in 1..Len(s) :
        (Handshaking(s) /\ InitRunEnds(s, k))
            ~> (\/ ~WritesAccepted
                \/ /\ pc = "returned"
                   /\ ret = [n |-> 3, err |-> NoErr]
                   /\ Written(START) = 1
                   /\ nreads = k)

\* C2: a handshake whose transport accepts every write and will deliver three
\* consecutive init bytes or a hard read error does not stop short of
\* returning: it has returned or it can take a step.
C2_HandshakeTerminates ==
    (/\ op = "Write"
     /\ HasResetByte
     /\ WritesAccepted
     /\ nreads = 0
     /\ \/ \E k \in 1..Len(rd) : InitRunEnds(rd, k)
        \/ \E k \in 1..Len(rd) : rd[k].err = EIO)
        => (pc = "returned" \/ ENABLED Next)

\* C3: the writes a Write holding the reset byte performs on the transport are
\* a prefix of [stop], [reset], [start].
C3_WritesArePrefix ==
    (op = "Write" /\ HasResetByte)
        => /\ Len(tw) <= 3
           /\ \A i \in DOMAIN tw : tw[i].data = << <<STOP>>, <<RESET>>, <<START>> >>[i]

\* C5: on a transport that accepts every write and answers the first polling
\* read with a hard error, the Write returns that error after that one read
\* and without a start write.
C5_ReadErrorReturned ==
    \A s \in Scripts :
        (Handshaking(s) /\ \E i \in DOMAIN s : i = 1 /\ s[i].err = EIO)
            ~> (\/ ~WritesAccepted
                \/ /\ pc = "returned"
                   /\ ret.err = EIO
                   /\ Written(START) = 0
                   /\ nreads = 1)

\* C6: a Write holding the reset byte that returns an error returns with it
\* the number of bytes written in the steps completed before.
C6_PartialCountReturned ==
    (op = "Write" /\ HasResetByte /\ pc = "returned" /\ ret.err # NoErr)
        => ret.n = BytesWritten

\* s delivers exactly three init bytes, separated only by timeouts.
InitsAmongTimeouts(s) ==
    /\ \A i \in DOMAIN s : s[i] = Data(INIT) \/ s[i] = Timeout
    /\ Cardinality({i \in DOMAIN s : s[i] = Data(INIT)}) = 3
    /\ \E i \in DOMAIN s : s[i] = Timeout
    /\ \E i \in DOMAIN s : i = Len(s) /\ s[i] = Data(INIT)

\* C7: timeouts among the polling reads change nothing: three init bytes
\* separated only by timeouts complete the handshake, which returns (3, nil)
\* when the script is read to its end.
C7_TimeoutsSkipped ==
    \A s \in Scripts :
        (Handshaking(s) /\ InitsAmongTimeouts(s))
            ~> (\/ ~WritesAccepted
                \/ /\ pc = "returned"
                   /\ ret = [n |-> 3, err |-> NoErr]
                   /\ nreads = Len(s))

\* C8: a Write without the reset byte writes the buffer once, verbatim, reads
\* nothing, and returns the count and the error of the transport.
C8_PassThrough ==
    (op = "Write" /\ ~HasResetByte /\ pc = "returned")
        => /\ Len(tw) = 1
           /\ tw[1].data = buf
           /\ nreads = 0
           /\ ret = [n |-> tw[1].n, err |-> tw[1].err]

\* The byte b is what the stream of an armed MockDevice holds at position q
\* (from 0): the leading footer, then per packet k the header, k mod 256, 30
\* payload bytes and the footer.
ExpectedAt(q, b) ==
    IF q = 0
    THEN b = FOOTER
    ELSE LET r == (q - 1) % 33
             k == (q - 1) \div 33
         IN  CASE r = 0 -> b = HEADER
               [] r = 1 -> b = k % 256
               [] r = 32 -> b = FOOTER
               [] OTHER -> b \in 0..255

\* C9: the bytes the Reads of a MockDevice produce, concatenated, are the
\* footer, then for packet k = 0, 1, 2, ... the header, k mod 256, 30 payload
\* bytes and the footer.
C9_Stream ==
    last.op = "Read"
        => /\ last.n <= Len(last.p)
           /\ \A i \in 1..last.n : ExpectedAt(pos - last.n + i - 1, last.p[i])

\* Witness of C9: a Read produced the header and the sequence byte of packet
\* 256, the sequence byte being 0 again.
C9_Witness ==
    /\ last.op = "Read"
    /\ last.n = 2
    /\ pos = 1 + 33 * 256 + 2
    /\ last.p = <<HEADER, 0>>

\* The bytes of the last Read are those of the phases they were emitted in.
PhaseBytes ==
    last.op = "Read" =>
        \A i \in 1..last.n :
            LET ph == hist[Len(hist) - last.n + i] IN
            /\ ph \in {0, 4} => last.p[i] = FOOTER
            /\ ph = 1 => last.p[i] = HEADER

\* C10 as stated: the sequence bytes of consecutive packets are 34 bytes
\* apart.
C10_Period34 ==
    \A i \in DOMAIN hist :
        (hist[i] = 2 /\ i + 34 <= Len(hist)) => hist[i + 34] = 2

\* C10 as amended: after the one leading footer, every packet cycle emits 33
\* bytes, the header, the sequence byte, 30 payload bytes and the footer: the
\* sequence bytes of consecutive packets are 33 bytes apart, and the footer of
\* readstate 0 is the first byte of the stream only.
C10_Period33 ==
    /\ PhaseBytes
    /\ \A i \in DOMAIN hist :
        /\ hist[i] = 0 => pos - Len(hist) + i = 1
        /\ (hist[i] = 2 /\ i + 33 <= Len(hist))
             => /\ \A j \in 1..30 : hist[i + j] = 3
                /\ hist[i + 31] = 4
                /\ hist[i + 32] = 1
                /\ hist[i + 33] = 2

\* Witness of C10: the bytes remembered hold the sequence bytes of two
\* consecutive packets.
C10_Witness ==
    \E i \in DOMAIN hist : hist[i] = 2 /\ i + 33 <= Len(hist) /\ hist[i + 33] = 2

\* The packets the MockDevice has completed: the trailing footers emitted.
Completed == IF pos = 0 THEN 0 ELSE (pos - 1) \div 33

\* C11: seqcounter is the number of completed packets mod 256: 0 at first,
\* one more (mod 256) with each trailing footer emitted and at no other step,
\* so 0 again after 256 packets.
C11_SeqCounter == seqcounter = Completed % 256

\* Witness of C11: 256 packets are completed and seqcounter is 0 again.
C11_Witness ==
    /\ pos = 1 + 33 * 256
    /\ seqcounter = 0
    /\ last.op = "Read"
    /\ last.n >= 1
    /\ last.p[last.n] = FOOTER

\* C12: a Read of a MockDevice that is not armed returns (0, nil), leaves the
\* buffer as it was and leaves readstate, seqcounter, datacounter and on as
\* they were.
C12_UnarmedRead ==
    [][(~on /\ last'.op = "Read")
         => /\ last'.n = 0
            /\ last'.err = NoErr
            /\ \A i \in DOMAIN last'.p : last'.p[i] = STALE
            /\ UNCHANGED <<readstate, seqcounter, datacounter, on, pos, hist>>]_vars

\* Witness of C12: a Read of MaxReadLen slots returned 0 on a device halted in
\* the middle of a payload.
C12_Witness ==
    /\ ~on
    /\ last.op = "Read"
    /\ Len(last.p) = MaxReadLen
    /\ last.n = 0
    /\ readstate = 3
    /\ datacounter > 0

\* C13: a Write changes none of readstate, seqcounter and datacounter, and a
\* Read that stores bytes starts in the readstate the device was left in, with
\* the byte the stream of an always-armed device has at that position.
C13_WritePreserves ==
    [][/\ last'.op = "Write"
            => UNCHANGED <<readstate, seqcounter, datacounter, pos, hist>>
       /\ (last'.op = "Read" /\ last'.n >= 1)
            => /\ hist'[Len(hist') - last'.n + 1] = readstate
               /\ ExpectedAt(pos, last'.p[1])]_vars

\* Witness of C13: a stop Write halted the device in the middle of the payload
\* of packet 2, phase and counters kept.
C13_Witness ==
    /\ last.op = "Write"
    /\ last.p = <<STOP>>
    /\ ~on
    /\ readstate = 3
    /\ datacounter = 7
    /\ seqcounter = 2

\* The last call was Write([start]).
JustStarted == last.op = "Write" /\ last.p = <<START>>

\* A Read with a buffer of at least one slot right after Write([start]).
ReadAfterStart == JustStarted /\ last'.op = "Read" /\ Len(last'.p) >= 1

\* C14 as stated: after Write([start]) the device is armed and the next
\* non-empty Read begins with the footer byte, emitted in a footer phase.
C14_StartsAtFooter ==
    [][ReadAfterStart
         => /\ on
            /\ last'.n >= 1
            /\ last'.p[1] = FOOTER
            /\ readstate \in {0, 4}]_vars

\* C14 as amended: after Write([start]) the device is armed and the next
\* non-empty Read fills its buffer from the phase the device was left in: its
\* first byte is the footer if that phase is 0 (nothing emitted yet) or 4, the
\* header if it is 1, seqcounter if it is 2, a payload byte if it is 3.
C14_StartResumes ==
    [][ReadAfterStart
         => /\ on
            /\ last'.n = Len(last'.p)
            /\ pos = 0 => readstate = 0
            /\ readstate \in {0, 4} => last'.p[1] = FOOTER
            /\ readstate = 1 => last'.p[1] = HEADER
            /\ readstate = 2 => last'.p[1] = seqcounter
            /\ readstate = 3 => last'.p[1] \in PayloadBytes]_vars

\* Witness of C14: Write([start]) armed a device halted in the middle of a
\* payload, where the next Read goes on with payload bytes.
C14_Witness ==
    /\ JustStarted
    /\ on
    /\ readstate = 3
    /\ datacounter > 0

\* C15: a Write of w returns (len(w), nil); it arms the device if w begins
\* with start, disarms it if w begins with stop, and leaves on otherwise (also
\* for the empty w); it changes nothing else of the device.
C15_WriteFirstByte ==
    [][last'.op = "Write"
         => LET w == last'.p IN
            /\ last'.n = Len(w)
            /\ last'.err = NoErr
            /\ on' = IF w = <<>> THEN on
                     ELSE IF w[1] = START THEN TRUE
                     ELSE IF w[1] = STOP THEN FALSE
                     ELSE on
            /\ UNCHANGED <<readstate, seqcounter, datacounter>>]_vars

\* Witness of C15: Write([0x00, start]) returned 2 and did not arm the device.
C15_Witness ==
    /\ last.op = "Write"
    /\ last.p = <<0, START>>
    /\ last.n = 2
    /\ ~on

\* C19: between calls readstate is in 0..4 and datacounter in 0..29,
\* datacounter is not 0 only in readstate 3, and readstate is 0 only while no
\* byte has been emitted.
C19_Ranges ==
    /\ readstate \in 0..4
    /\ datacounter \in 0..29
    /\ datacounter # 0 => readstate = 3
    /\ readstate = 0 => pos = 0

\* Witness of C19: a Read stopped one payload byte short of the trailing
\* footer.
C19_Witness ==
    /\ last.op = "Read"
    /\ readstate = 3
    /\ datacounter = 29

\* In MockSpec the device is in the state StateAt gives for the bytes emitted.
ReachableStateAt == mdState = StateAt(pos)

\* C16: in a Write holding the reset byte, a transport write that fails is the
\* last thing done on the transport: no write follows it, nothing is read, no
\* start byte is written, and its error is on its way to the caller or has
\* been returned.
C16_FailedWriteAborts ==
    (op = "Write" /\ HasResetByte)
        => \A i \in DOMAIN tw :
              tw[i].err # NoErr
                 => /\ i = Len(tw)
                    /\ nreads = 0
                    /\ Written(START) = 0
                    /\ \/ callret # <<>> /\ callret[1] = [n |-> 0, err |-> tw[i].err]
                       \/ pc = "returned" /\ ret = [n |-> 0, err |-> tw[i].err]

\* Witness of C16: the write of the stop byte failed and the Write returned
\* its error, the transport having received nothing else.
C16_Witness ==
    /\ op = "Write"
    /\ HasResetByte
    /\ pc = "returned"
    /\ Len(tw) = 1
    /\ tw[1].data = <<STOP>>
    /\ tw[1].err = EIO
    /\ ret.err = EIO

\* C17: an armed Read fills every slot and returns (len, nil), and Reads of a
\* and then b slots leave the device in the state, and produce the bytes, phase
\* by phase, of one Read of a + b slots.
C17_Chunking ==
    last.op = "Chunks"
        => /\ last.na = last.a
           /\ last.n = last.a + last.b
           /\ last.err = NoErr
           /\ last.whole.b = last.a + last.b
           /\ last.whole.s = mdState
           /\ last.whole.p = last.p
           /\ last.whole.marks = last.marks

\* Witness of C17: two Reads of MaxReadLen slots went through the trailing
\* footer of packet 255, seqcounter wrapping to 0.
C17_Witness ==
    /\ last.op = "Chunks"
    /\ last.a = MaxReadLen
    /\ last.b = MaxReadLen
    /\ \E i \in DOMAIN last.marks : last.marks[i] = 4
    /\ pos > 33 * 256
    /\ seqcounter = 0

\* The Write handed its buffer to the transport and returned.
PassedThrough ==
    /\ pc = "returned"
    /\ stack = <<>>
    /\ Len(tw) = 1
    /\ tw[1].data = buf

\* C20: a Write passes its buffer through exactly when the reset byte occurs
\* nowhere in it, and runs the handshake exactly when it occurs somewhere.
C20_ResetDetected ==
    op = "Write"
        => /\ PassedThrough <=> ~HasResetByte
           /\ (stack # <<>> \/ callret # <<>> \/ pc = "crashed") => HasResetByte

\* Witness of C20: the Write of a buffer with the reset byte in the middle is
\* in the handshake, the stop byte written.
C20_Witness ==
    /\ op = "Write"
    /\ buf = <<START, RESET, STOP>>
    /\ pc = "running"
    /\ Len(tw) = 1
    /\ tw[1].data = <<STOP>>

====
